---- MODULE Spec2Model ----
(***************************************************************************)
(* Sigil, MainUI/PreviewWindow.cpp: the full-screen svg image fix-up of    *)
(* PreviewWindow::UpdatePage.                                              *)
(*                                                                         *)
(* UpdatePage hands its markup to fixup_fullscreen_svg_images, which       *)
(* parses it with the gumbo repair parser and matches the shape            *)
(* body -> [div ->] svg -> image on the parsed tree; when the shape        *)
(* matches, UpdatePage patches the unparsed markup with two regular        *)
(* expressions and hands the result to the preview view.                   *)
(*                                                                         *)
(* Markup is a sequence of lexemes (start tags with their attribute        *)
(* lists, end tags, character data, comments); the tree is a sequence of   *)
(* nodes in document order, each with the index of its parent (0: none).   *)
(* Tag and attribute names are lower case, as gumbo reports them, and      *)
(* contain no comma.                                                       *)
(***************************************************************************)
EXTENDS Integers, Sequences, FiniteSets, TLC

\* Bounds of the markup the model feeds to UpdatePage.
MaxSiblings == 2
MaxImages == 2
MaxDivs == 2

HEADERTAGS == {"h1", "h2", "h3", "h4", "h5", "h6"}

(***************************************************************************)
(* Lexemes of the markup.                                                  *)
(*   k = "open"    <tag atts>                                              *)
(*   k = "close"   </tag>                                                  *)
(*   k = "text"    character data that is not only white space             *)
(*   k = "ws"      character data that is only white space                 *)
(*   k = "comment" <!-- <tag atts> -->, a commented-out start tag          *)
(* An attribute is [name, value, q]: q = "quoted" when the value is        *)
(* written between " or ', "bare" when it is written without quotes.       *)
(***************************************************************************)
Att(n, v, q) == [name |-> n, value |-> v, q |-> q]

Open(t, a) == [k |-> "open", tag |-> t, atts |-> a]

Close(t) == [k |-> "close", tag |-> t, atts |-> <<>>]

Chars(kind) == [k |-> kind, tag |-> "#text", atts |-> <<>>]

Comment(t, a) == [k |-> "comment", tag |-> t, atts |-> a]

Last(s) == s[Len(s)]

Front(s) == SubSeq(s, 1, Len(s) - 1)

(***************************************************************************)
(* The parser (GumboInterface over gumbo).  A node records its type, tag,  *)
(* parent, attributes and the positions of its start and end tag in the    *)
(* markup.  The document node and the html element always exist.  What     *)
(* the parser does that matters here:                                      *)
(*   - the content of script and style outside svg is raw character data;  *)
(*     inside svg (foreign content) they are ordinary elements;            *)
(*   - an image start tag outside svg becomes img;                         *)
(*   - comments become comment nodes, white-space-only character data a    *)
(*     whitespace node.                                                    *)
(***************************************************************************)
Node(ty, t, p, a, at) ==
    [type |-> ty, tag |-> t, parent |-> p, atts |-> a, pos |-> at, end |-> 0]

InForeign(nodes, stack) ==
    \E s \in 1..Len(stack) : nodes[stack[s]].tag = "svg"

RECURSIVE ParseFrom(_, _, _, _, _)
ParseFrom(toks, i, nodes, stack, raw) ==
    IF i > Len(toks) THEN nodes
    ELSE
      LET t == toks[i]
          top == Last(stack)
          n == Len(nodes) + 1
      IN
      IF raw # "" THEN
          IF t.k = "close" /\ t.tag = raw
          THEN ParseFrom(toks, i + 1, [nodes EXCEPT ![top].end = i], Front(stack), "")
          ELSE ParseFrom(toks, i + 1,
                         Append(nodes, Node("text", "#text", top, <<>>, i)),
                         stack, raw)
      ELSE IF t.k = "open" THEN
          LET foreign == InForeign(nodes, stack)
              tag == IF t.tag = "image" /\ ~foreign THEN "img" ELSE t.tag
              israw == tag \in {"script", "style"} /\ ~foreign
          IN ParseFrom(toks, i + 1,
                       Append(nodes, Node("element", tag, top, t.atts, i)),
                       Append(stack, n),
                       IF israw THEN tag ELSE "")
      ELSE IF t.k = "close" THEN
          IF Len(stack) > 2 /\ nodes[top].tag = t.tag
          THEN ParseFrom(toks, i + 1, [nodes EXCEPT ![top].end = i], Front(stack), "")
          ELSE ParseFrom(toks, i + 1, nodes, stack, "")
      ELSE IF t.k = "comment" THEN
          ParseFrom(toks, i + 1,
                    Append(nodes, Node("comment", "#comment", top, <<>>, i)),
                    stack, "")
      ELSE
          ParseFrom(toks, i + 1,
                    Append(nodes,
                           Node(IF t.k = "ws" THEN "whitespace" ELSE "text",
                                "#text", top, <<>>, i)),
                    stack, "")

Parse(toks) ==
    ParseFrom(toks, 1,
              << Node("document", "#document", 0, <<>>, 0),
                 Node("element", "html", 1, <<>>, 0) >>,
              <<1, 2>>, "")

\* GumboInterface::get_all_nodes_with_tag: the element nodes with the tag,
\* in document order.
get_all_nodes_with_tag(tree, tag) ==
    SelectSeq([i \in 1..Len(tree) |-> i],
              LAMBDA i : tree[i].type = "element" /\ tree[i].tag = tag)

\* GumboInterface::get_tag_name of a node that exists.
get_tag_name(tree, n) == tree[n].tag

\* body_node->v.element.children: the children of a node, in order.
Children(tree, n) ==
    SelectSeq([i \in 1..Len(tree) |-> i], LAMBDA i : tree[i].parent = n)

RECURSIVE IsUnder(_, _, _)
IsUnder(tree, n, a) ==
    IF n = 0 THEN FALSE
    ELSE tree[n].parent = a \/ IsUnder(tree, tree[n].parent, a)

\* GumboInterface::get_local_text_of_node(child).isEmpty(): the flattened
\* text of the node is empty; whitespace nodes contribute no text.
LocalTextIsEmpty(tree, n) ==
    ~\E i \in 1..Len(tree) : tree[i].type = "text" /\ IsUnder(tree, i, n)

\* GumboInterface::get_attributes_of_node followed by QHash::value(name, ""):
\* the value of the first attribute with the name, "" when there is none.
RECURSIVE AttValue(_, _)
AttValue(atts, name) ==
    IF atts = <<>> THEN ""
    ELSE IF atts[1].name = name THEN atts[1].value
    ELSE AttValue(Tail(atts), name)

(***************************************************************************)
(* PreviewWindow::fixup_fullscreen_svg_images, phase by phase.             *)
(***************************************************************************)

\* CountsOk with the image check testing only for zero images.
CountsOk_ImageNotZero(tree) ==
    /\ Len(get_all_nodes_with_tag(tree, "image")) >= 1
    /\ Len(get_all_nodes_with_tag(tree, "svg")) = 1
    /\ Len(get_all_nodes_with_tag(tree, "body")) = 1

\* The three count checks (image, svg, body: exactly one of each).
CountsOk(tree) ==
    /\ Len(get_all_nodes_with_tag(tree, "image")) = 1
    /\ Len(get_all_nodes_with_tag(tree, "svg")) = 1
    /\ Len(get_all_nodes_with_tag(tree, "body")) = 1

\* IgnoreTag without the heading rule.
IgnoreTag_NoHeadings(tree, child) ==
    LET name == get_tag_name(tree, child)
    IN (name = "script") \/ (name = "style")

\* ignore_tag of one element child of body: script and style always, a
\* heading when its local text is empty.
IgnoreTag(tree, child) ==
    LET name == get_tag_name(tree, child)
        ignore_tag == (name = "script") \/ (name = "style")
    IN IF name \in HEADERTAGS
       THEN ignore_tag \/ LocalTextIsEmpty(tree, child)
       ELSE ignore_tag

\* The loop over the children of body from the i-th on, with its early
\* break once elcount exceeds 1.
RECURSIVE ScanFrom(_, _, _, _, _)
ScanFrom(tree, kids, i, elcount, child_names) ==
    IF i > Len(kids) THEN [elcount |-> elcount, child_names |-> child_names]
    ELSE
      LET child == kids[i] IN
      IF tree[child].type = "element" THEN
          LET counted == ~IgnoreTag(tree, child)
              names == IF counted
                       THEN Append(child_names, get_tag_name(tree, child))
                       ELSE child_names
              count == IF counted THEN elcount + 1 ELSE elcount
          IN IF count > 1
             THEN [elcount |-> count, child_names |-> names]
             ELSE ScanFrom(tree, kids, i + 1, count, names)
      ELSE ScanFrom(tree, kids, i + 1, elcount, child_names)

BodyScan(tree, body_node) ==
    ScanFrom(tree, Children(tree, body_node), 1, 0, <<>>)

allowed_tags == {"div", "svg"}

\* (elcount != 1) || !allowed_tags.contains(child_names.at(0)): the lookup
\* is made only when the left operand is false.  "at_empty" is at(0) on an
\* empty list.
ScanVerdict(scan) ==
    IF scan.elcount # 1 THEN "reject"
    ELSE IF scan.child_names = <<>> THEN "at_empty"
    ELSE IF scan.child_names[1] \notin allowed_tags THEN "reject"
    ELSE "pass"

IsBody(tree, n) == tree[n].type = "element" /\ tree[n].tag = "body"

\* KeepInPath that keeps every name.
KeepInPath_All(parent_name) == parent_name = parent_name

\* The test that lets a parent's name into path_pieces.
KeepInPath(parent_name) == (parent_name # "script") /\ (parent_name # "style")

\* WalkFrom with the filter on the name of the node left behind, not on
\* the name of the parent.
RECURSIVE WalkFrom_ChildFilter(_, _, _)
WalkFrom_ChildFilter(tree, anode, path_pieces) ==
    IF anode = 0 \/ IsBody(tree, anode)
    THEN [fault |-> FALSE, path_pieces |-> path_pieces]
    ELSE
      LET myparent == tree[anode].parent IN
      IF myparent = 0
      THEN [fault |-> TRUE, path_pieces |-> path_pieces]
      ELSE
        WalkFrom_ChildFilter(tree, myparent,
                 IF KeepInPath(get_tag_name(tree, anode))
                 THEN <<get_tag_name(tree, myparent)>> \o path_pieces
                 ELSE path_pieces)

\* The while loop from anode upward.  fault: get_tag_name was called on the
\* missing parent of a node that has none.
RECURSIVE WalkFrom(_, _, _)
WalkFrom(tree, anode, path_pieces) ==
    IF anode = 0 \/ IsBody(tree, anode)
    THEN [fault |-> FALSE, path_pieces |-> path_pieces]
    ELSE
      LET myparent == tree[anode].parent IN
      IF myparent = 0
      THEN [fault |-> TRUE, path_pieces |-> path_pieces]
      ELSE
        LET parent_name == get_tag_name(tree, myparent) IN
        WalkFrom(tree, myparent,
                 IF KeepInPath(parent_name)
                 THEN <<parent_name>> \o path_pieces
                 ELSE path_pieces)

AncestorWalk(tree, image_node) ==
    WalkFrom(tree, image_node, << get_tag_name(tree, image_node) >>)

\* AllowedPath as a test of the two ends of the path only.
AllowedPath_Ends(path_pieces) ==
    /\ Len(path_pieces) >= 3
    /\ path_pieces[1] = "body"
    /\ SubSeq(path_pieces, Len(path_pieces) - 1, Len(path_pieces))
           = <<"svg", "image">>

\* AllowedPath without the div form.
AllowedPath_NoDiv(path_pieces) ==
    path_pieces = <<"body", "svg", "image">>

\* apath is "body,div,svg,image" or "body,svg,image"; the joined string is
\* kept as the sequence of its pieces.
AllowedPath(path_pieces) ==
    \/ path_pieces = <<"body", "div", "svg", "image">>
    \/ path_pieces = <<"body", "svg", "image">>

\* DimsOk that looks at the width only.
DimsOk_WidthOnly(tree, svg_node) ==
    AttValue(tree[svg_node].atts, "width") = "100%"

\* Both svg attributes are "100%".
DimsOk(tree, svg_node) ==
    /\ AttValue(tree[svg_node].atts, "width") = "100%"
    /\ AttValue(tree[svg_node].atts, "height") = "100%"

\* The function as a whole: "true", "false", or "ub" when the ancestor walk
\* reads the tag of a missing parent.
Detect(tree) ==
    IF ~CountsOk(tree) THEN "false"
    ELSE
      LET image_node == get_all_nodes_with_tag(tree, "image")[1]
          svg_node == get_all_nodes_with_tag(tree, "svg")[1]
          body_node == get_all_nodes_with_tag(tree, "body")[1]
          verdict == ScanVerdict(BodyScan(tree, body_node))
      IN
      IF verdict = "at_empty" THEN "ub"
      ELSE IF verdict = "reject" THEN "false"
      ELSE
        LET walk == AncestorWalk(tree, image_node) IN
        IF walk.fault THEN "ub"
        ELSE IF ~AllowedPath(walk.path_pieces) THEN "false"
        ELSE IF DimsOk(tree, svg_node) THEN "true" ELSE "false"

(***************************************************************************)
(* The svg rewrite of UpdatePage: two regular expressions on the unparsed  *)
(* markup,                                                                 *)
(*   <\s*svg\s[^>]*height\s*=\s*["'](100%)["'][^>]*>   (and width),        *)
(* case-insensitive, each matched once from offset 0.                      *)
(***************************************************************************)

\* [^>]*height: the attribute names of the model that end in the word.
NameEndsIn(name, dim) ==
    \/ name = dim
    \/ dim = "height" /\ name = "data-height"
    \/ dim = "width" /\ name = "stroke-width"

\* height\s*=\s*["'](100%)["'] on one attribute as written.
AttMatches(a, dim) ==
    NameEndsIn(a.name, dim) /\ a.q = "quoted" /\ a.value = "100%"

\* The pattern on one lexeme: it looks at characters, so a commented-out
\* start tag matches like a real one.
TagMatches(tok, dim) ==
    /\ tok.k \in {"open", "comment"}
    /\ tok.tag = "svg"
    /\ \E j \in 1..Len(tok.atts) : AttMatches(tok.atts[j], dim)

\* QRegularExpression::match(text, 0): the leftmost match, 0 when none.
FirstMatch(text, dim) ==
    LET hits == {i \in 1..Len(text) : TagMatches(text[i], dim)}
    IN IF hits = {} THEN 0 ELSE CHOOSE i \in hits : \A h \in hits : i <= h

\* capturedStart(1): [^>]* is greedy, so the group is the last attribute of
\* the tag that matches.
Captured(tok, dim) ==
    CHOOSE j \in 1..Len(tok.atts) :
        /\ AttMatches(tok.atts[j], dim)
        /\ \A h \in 1..Len(tok.atts) : AttMatches(tok.atts[h], dim) => h <= j

\* ReplaceFirst that replaces every match in the tag, not the captured one.
ReplaceFirst_Every(text, dim, new) ==
    LET i == FirstMatch(text, dim) IN
    IF i = 0 THEN text
    ELSE [text EXCEPT ![i].atts =
             [j \in 1..Len(text[i].atts) |->
                 IF AttMatches(text[i].atts[j], dim)
                 THEN [text[i].atts[j] EXCEPT !.value = new]
                 ELSE text[i].atts[j]]]

\* hasMatch, then text.replace(bp, n, new).
ReplaceFirst(text, dim, new) ==
    LET i == FirstMatch(text, dim) IN
    IF i = 0 THEN text
    ELSE [text EXCEPT ![i].atts[Captured(text[i], dim)].value = new]

svg_height(text) == ReplaceFirst(text, "height", "100vh")

svg_width(text) == ReplaceFirst(text, "width", "100vw")

(***************************************************************************)
(* The markup UpdatePage is called with.                                   *)
(***************************************************************************)
RECURSIVE Flat(_)
Flat(ss) == IF ss = <<>> THEN <<>> ELSE ss[1] \o Flat(Tail(ss))

Reverse(s) == [i \in 1..Len(s) |-> s[Len(s) + 1 - i]]

Opens(tags) == [i \in 1..Len(tags) |-> Open(tags[i], <<>>)]

Closes(tags) == [i \in 1..Len(tags) |-> Close(tags[i])]

Elem(tag, content) == <<Open(tag, <<>>)>> \o content \o <<Close(tag)>>

SiblingKinds == {"script", "style", "hE", "hW", "hT", "p"}

Sibling(kind) ==
    CASE kind = "script" -> Elem("script", <<Chars("text")>>)
      [] kind = "style" -> Elem("style", <<Chars("text")>>)
      [] kind = "hE" -> Elem("h1", <<>>)
      [] kind = "hW" -> Elem("h2", <<Chars("ws")>>)
      [] kind = "hT" -> Elem("h6", <<Chars("text")>>)
      [] kind = "p" -> Elem("p", <<Chars("text")>>)

SiblingLists ==
    UNION {[1..n -> SiblingKinds] : n \in 0..MaxSiblings}

W100 == Att("width", "100%", "quoted")

H100 == Att("height", "100%", "quoted")

AttsFull == <<W100, H100>>

AttsNoHeight == <<W100>>

AttsH99 == <<W100, Att("height", "99%", "quoted")>>

AttsBare == <<Att("width", "100%", "bare"), Att("height", "100%", "bare")>>

AttsExtra ==
    <<W100, H100, Att("stroke-width", "100%", "quoted"),
      Att("data-height", "100%", "quoted")>>

SvgAttLists == {AttsFull, AttsNoHeight, AttsH99, AttsBare, AttsExtra}

Wrappers ==
    {[i \in 1..n |-> "div"] : n \in 0..MaxDivs}
      \cup { <<"p">>, <<"script", "div">>, <<"div", "style">> }

Inners == { <<>>, <<"style">>, <<"script">>, <<"g">> }

Images(n) == Flat([i \in 1..n |-> Elem("image", <<>>)])

\* wr: the elements around the svg; inner: the elements between the svg
\* and its images; nested: a second svg beside the images.
Main(wr, atts, inner, nimg, nested) ==
    Opens(wr) \o <<Open("svg", atts)>> \o Opens(inner) \o Images(nimg)
      \o (IF nested THEN Elem("svg", <<>>) ELSE <<>>)
      \o Closes(Reverse(inner)) \o <<Close("svg")>> \o Closes(Reverse(wr))

\* The siblings, with the main element after the first at of them.
BodyKids(sibs, at, main) ==
    Flat([i \in 1..Len(sibs) |-> Sibling(sibs[i])
                                   \o (IF i = at THEN main ELSE <<>>)])

Page(pre, kids) == pre \o Elem("body", kids)

DecoyComment == Comment("svg", <<H100, W100>>)

HeadTemplate(atts) ==
    Elem("head", Elem("template", Main(<<>>, atts, <<>>, 1, FALSE)))

DocsSiblings ==
    {Page(<<>>, IF at = 0 THEN Main(wr, atts, inner, 1, FALSE)
                               \o BodyKids(sibs, 0, <<>>)
                ELSE BodyKids(sibs, at, Main(wr, atts, inner, 1, FALSE))) :
        <<sibs, at, wr, atts, inner>> \in
            {q \in SiblingLists \X (0..MaxSiblings) \X { <<>>, <<"div">> }
                     \X {AttsFull, AttsNoHeight} \X { <<>>, <<"style">> } :
                q[2] <= Len(q[1])}}

DocsStructure ==
    {Page(<<>>, Main(wr, atts, inner, nimg, nested)) :
        <<wr, atts, inner, nimg, nested>> \in
            Wrappers \X {AttsFull, AttsH99} \X Inners \X (0..MaxImages) \X BOOLEAN}

DocsLexical ==
    {Page(pre, Main(wr, atts, <<>>, 1, FALSE)) :
        <<pre, wr, atts>> \in
            { <<>>, <<DecoyComment>> } \X { <<>>, <<"div">> } \X SvgAttLists}

DocsHead ==
    {Page(HeadTemplate(AttsFull), kids) :
        kids \in { <<>>, Elem("div", <<>>), Elem("p", <<>>),
                   Main(<<"div">>, AttsFull, <<>>, 0, FALSE) }}

DocsOther ==
    { Elem("frameset", <<>>),
      Page(<<>>, Elem("div", Elem("image", <<>>))) }

Docs == DocsSiblings \cup DocsStructure \cup DocsLexical \cup DocsHead \cup DocsOther

(***************************************************************************)
(* The state: where UpdatePage is (pc), its text, the locals of            *)
(* fixup_fullscreen_svg_images, and the document handed to the view.       *)
(* orig is the text as fixup_fullscreen_svg_images received it.            *)
(***************************************************************************)
VARIABLES pc, text, orig, tree, image_node, svg_node, body_node,
          elcount, child_names, path_pieces, ret, doc

(***************************************************************************)
(* The preview window around the call.                                     *)
(*   visible         m_Preview->isVisible()                                *)
(*   m_updatingPage, m_location, m_Filepath: the members                   *)
(*   progress        the value of m_progress (-1 after reset())            *)
(*   timer           m_OverlayTimer is running                             *)
(*   overlay         the overlay of the view is shown                      *)
(*   loading         documents handed to the view (CustomSetDocument) and  *)
(*                   still waiting for their DocumentLoaded                *)
(*   upd_ret         what the last call of UpdatePage returned             *)
(*   forced          ReloadPreview has cleared m_updatingPage with a load  *)
(*                   outstanding                                           *)
(***************************************************************************)
VARIABLES visible, m_updatingPage, m_location, m_Filepath, progress, timer,
          overlay, loading, upd_ret, forced

ui == <<visible, m_updatingPage, m_location, m_Filepath, progress, timer,
        overlay, loading, upd_ret, forced>>

vars == <<pc, text, orig, tree, image_node, svg_node, body_node,
          elcount, child_names, path_pieces, ret, doc, ui>>

\* Documents the view holds at once, at most (a bound of the model).
MaxLoading == 2

Files == {"a.xhtml", "b.xhtml"}

Locations == { <<>>, <<"p">> }

\* UpdatePage with the busy test before the visibility test.
Entry_BusyFirst(vis, upd) ==
    IF upd THEN "delay" ELSE IF ~vis THEN "ignore" ELSE "run"

\* UpdatePage without the busy test.
Entry_NoBusy(vis, upd) ==
    IF ~vis THEN "ignore" ELSE "run"

\* The two early returns of UpdatePage: not visible, return true; loading
\* a page already, return false.
Entry(vis, upd) ==
    IF ~vis THEN "ignore" ELSE IF upd THEN "delay" ELSE "run"

locals == <<tree, image_node, svg_node, body_node, elcount, child_names,
            path_pieces>>

Init ==
    /\ pc = "idle"
    /\ text = <<>>
    /\ orig = <<>>
    /\ tree = <<>>
    /\ image_node = 0
    /\ svg_node = 0
    /\ body_node = 0
    /\ elcount = 0
    /\ child_names = <<>>
    /\ path_pieces = <<>>
    /\ ret = "none"
    /\ doc = <<>>
    /\ visible = FALSE
    /\ m_updatingPage = FALSE
    /\ m_location = <<>>
    /\ m_Filepath = ""
    /\ progress = -1
    /\ timer = FALSE
    /\ overlay = FALSE
    /\ loading = 0
    /\ upd_ret = "none"
    /\ forced = FALSE

\* showEvent: the view is shown.
ShowEvent ==
    /\ pc = "idle"
    /\ visible' = TRUE
    /\ UNCHANGED <<pc, text, orig, locals, ret, doc, m_updatingPage,
                   m_location, m_Filepath, progress, timer, overlay, loading,
                   upd_ret, forced>>

\* UpdatePage up to the call of fixup_fullscreen_svg_images(text), in a
\* call that gets past the two early returns.
UpdatePage(filename_url, t, location) ==
    /\ pc = "idle"
    /\ Entry(visible, m_updatingPage) = "run"
    /\ pc' = "fixup"
    /\ progress' = 0
    /\ timer' = TRUE
    /\ m_updatingPage' = TRUE
    /\ m_location' = location
    /\ text' = t
    /\ orig' = t
    /\ UNCHANGED <<locals, ret, doc, visible, m_Filepath, overlay, loading,
                   upd_ret, forced>>

\* The parse and the three count checks.
CountTags ==
    /\ pc = "fixup"
    /\ tree' = Parse(text)
    /\ IF CountsOk(tree')
       THEN /\ image_node' = get_all_nodes_with_tag(tree', "image")[1]
            /\ svg_node' = get_all_nodes_with_tag(tree', "svg")[1]
            /\ body_node' = get_all_nodes_with_tag(tree', "body")[1]
            /\ pc' = "scan"
            /\ ret' = ret
       ELSE /\ pc' = "returned"
            /\ ret' = "false"
            /\ UNCHANGED <<image_node, svg_node, body_node>>
    /\ UNCHANGED <<text, orig, elcount, child_names, path_pieces, doc>>
    /\ UNCHANGED ui

\* The scan of body's children and the test after it.
ScanBody ==
    /\ pc = "scan"
    /\ LET scan == BodyScan(tree, body_node)
           verdict == ScanVerdict(scan)
       IN /\ elcount' = scan.elcount
          /\ child_names' = scan.child_names
          /\ pc' = CASE verdict = "pass" -> "walk"
                     [] verdict = "reject" -> "returned"
                     [] verdict = "at_empty" -> "crashed"
          /\ ret' = IF verdict = "reject" THEN "false" ELSE ret
    /\ UNCHANGED <<text, orig, tree, image_node, svg_node, body_node,
                   path_pieces, doc>>
    /\ UNCHANGED ui

\* The ancestor walk when it ends at body.
WalkAncestors ==
    /\ pc = "walk"
    /\ LET walk == AncestorWalk(tree, image_node)
       IN /\ ~walk.fault
          /\ path_pieces' = walk.path_pieces
    /\ pc' = "path"
    /\ UNCHANGED <<text, orig, tree, image_node, svg_node, body_node,
                   elcount, child_names, ret, doc>>
    /\ UNCHANGED ui

\* The ancestor walk when it runs past the root: get_tag_name reads through
\* a null pointer.  The process dies, or the read yields some name, the
\* loop ends on the null anode and the path (it begins above body) is
\* rejected.
WalkNullParent ==
    /\ pc = "walk"
    /\ LET walk == AncestorWalk(tree, image_node)
       IN /\ walk.fault
          /\ path_pieces' = walk.path_pieces
    /\ \/ pc' = "crashed" /\ ret' = ret
       \/ pc' = "returned" /\ ret' = "false"
    /\ UNCHANGED <<text, orig, tree, image_node, svg_node, body_node,
                   elcount, child_names, doc>>
    /\ UNCHANGED ui

\* The comparison of apath with the two accepted paths.
CheckPath ==
    /\ pc = "path"
    /\ IF AllowedPath(path_pieces)
       THEN pc' = "dims" /\ ret' = ret
       ELSE pc' = "returned" /\ ret' = "false"
    /\ UNCHANGED <<text, orig, locals, doc>>
    /\ UNCHANGED ui

\* The check of the svg's width and height.
CheckDims ==
    /\ pc = "dims"
    /\ ret' = IF DimsOk(tree, svg_node) THEN "true" ELSE "false"
    /\ pc' = "returned"
    /\ UNCHANGED <<text, orig, locals, doc>>
    /\ UNCHANGED ui

\* if (fixup_fullscreen_svg_images(text)) { height rewrite ...
FixHeight ==
    /\ pc = "returned"
    /\ ret = "true"
    /\ text' = svg_height(text)
    /\ pc' = "width"
    /\ UNCHANGED <<orig, locals, ret, doc>>
    /\ UNCHANGED ui

\* ... width rewrite }
FixWidth ==
    /\ pc = "width"
    /\ text' = svg_width(text)
    /\ pc' = "set"
    /\ UNCHANGED <<orig, locals, ret, doc>>
    /\ UNCHANGED ui

\* The rewrite is skipped when the function returned false.
SkipFix ==
    /\ pc = "returned"
    /\ ret = "false"
    /\ pc' = "set"
    /\ UNCHANGED <<text, orig, locals, ret, doc>>
    /\ UNCHANGED ui

\* m_Filepath = filename_url; m_Preview->CustomSetDocument(filename_url,
\* text); m_progress->setValue(10); return true.
SetDocument(filename_url) ==
    /\ pc = "set"
    /\ m_Filepath' = filename_url
    /\ doc' = text
    /\ loading' = loading + 1
    /\ progress' = 10
    /\ upd_ret' = "true"
    /\ pc' = "done"
    /\ UNCHANGED <<text, orig, locals, ret, visible, m_updatingPage,
                   m_location, timer, overlay, forced>>

Next ==
    \/ ShowEvent
    \/ \E t \in Docs : UpdatePage("a.xhtml", t, <<>>)
    \/ CountTags
    \/ ScanBody
    \/ WalkAncestors
    \/ WalkNullParent
    \/ CheckPath
    \/ CheckDims
    \/ FixHeight
    \/ FixWidth
    \/ SkipFix
    \/ SetDocument("a.xhtml")

Spec == Init /\ [][Next]_vars

(***************************************************************************)
(* The window's handlers, each as one step: UpdatePage as a whole call,    *)
(* the slots the view's signals and the timer reach, the show and hide     *)
(* events and the reload action.                                           *)
(***************************************************************************)

\* The texts UpdatePage is called with here: a full-size svg page, a page
\* that is none, and the page whose image is outside body.
PreviewDocs ==
    { Page(<<>>, Main(<<>>, AttsFull, <<>>, 1, FALSE)),
      Page(<<>>, Elem("div", Elem("image", <<>>))),
      Page(HeadTemplate(AttsFull), Elem("div", <<>>)) }

\* The values the view reports with ViewProgress.
ProgressValues == {5, 50, 100}

\* hideEvent: the view is hidden.
HideEvent ==
    /\ pc = "idle"
    /\ visible' = FALSE
    /\ UNCHANGED <<pc, text, orig, locals, ret, doc, m_updatingPage,
                   m_location, m_Filepath, progress, timer, overlay, loading,
                   upd_ret, forced>>

\* One call of UpdatePage(filename_url, text, location), from entry to
\* return (or to the crash of the null parent read).
UpdatePageCall(filename_url, t, location) ==
    /\ pc = "idle"
    /\ LET entry == Entry(visible, m_updatingPage)
           found == Detect(Parse(t))
       IN  \/ /\ entry = "ignore"
              /\ upd_ret' = "true"
              /\ UNCHANGED <<pc, doc, m_updatingPage, m_location, m_Filepath,
                             progress, timer, overlay, loading>>
           \/ /\ entry = "delay"
              /\ upd_ret' = "false"
              /\ UNCHANGED <<pc, doc, m_updatingPage, m_location, m_Filepath,
                             progress, timer, overlay, loading>>
           \/ /\ entry = "run"
              /\ loading < MaxLoading
              /\ timer' = TRUE
              /\ m_updatingPage' = TRUE
              /\ m_location' = location
              /\ \/ /\ found = "ub"
                    /\ pc' = "crashed"
                    /\ progress' = 0
                    /\ upd_ret' = "none"
                    /\ UNCHANGED <<doc, m_Filepath, loading>>
                 \/ /\ pc' = pc
                    /\ m_Filepath' = filename_url
                    /\ doc' = IF found = "true"
                              THEN svg_width(svg_height(t)) ELSE t
                    /\ loading' = loading + 1
                    /\ progress' = 10
                    /\ upd_ret' = "true"
              /\ UNCHANGED overlay
    /\ UNCHANGED <<text, orig, locals, ret, visible, forced>>

\* The slot of the view's DocumentLoaded.
UpdatePageDone ==
    /\ pc = "idle"
    /\ loading > 0
    /\ loading' = loading - 1
    /\ timer' = FALSE
    /\ progress' = -1
    /\ overlay' = FALSE
    /\ m_updatingPage' = FALSE
    /\ forced' = (forced /\ loading' > 0)
    /\ UNCHANGED <<pc, text, orig, locals, ret, doc, visible, m_location,
                   m_Filepath, upd_ret>>

\* The reload action.
ReloadPreview ==
    /\ pc = "idle"
    /\ progress' = -1
    /\ timer' = FALSE
    /\ overlay' = FALSE
    /\ m_updatingPage' = FALSE
    /\ forced' = (forced \/ loading > 0)
    /\ UNCHANGED <<pc, text, orig, locals, ret, doc, visible, m_location,
                   m_Filepath, loading, upd_ret>>

\* The slot of the view's ViewProgress.
setProgress(val) ==
    /\ pc = "idle"
    /\ progress' = IF val > 10 /\ val < 100 THEN val ELSE progress
    /\ UNCHANGED <<pc, text, orig, locals, ret, doc, visible, m_updatingPage,
                   m_location, m_Filepath, timer, overlay, loading, upd_ret,
                   forced>>

\* The slot of the overlay timer's timeout.
ShowOverlay ==
    /\ pc = "idle"
    /\ timer
    /\ timer' = FALSE
    /\ overlay' = TRUE
    /\ UNCHANGED <<pc, text, orig, locals, ret, doc, visible, m_updatingPage,
                   m_location, m_Filepath, progress, loading, upd_ret, forced>>

NextUI ==
    \/ ShowEvent
    \/ HideEvent
    \/ \E f \in Files, t \in PreviewDocs, loc \in Locations :
           UpdatePageCall(f, t, loc)
    \/ UpdatePageDone
    \/ ReloadPreview
    \/ \E val \in ProgressValues : setProgress(val)
    \/ ShowOverlay

SpecUI == Init /\ [][NextUI]_vars

(***************************************************************************)
(* Vocabulary of the properties, defined on the tree and the markup        *)
(* without the operators of the function under check.                      *)
(***************************************************************************)
ElementsOf(tr, tag) ==
    {i \in 1..Len(tr) : tr[i].type = "element" /\ tr[i].tag = tag}

The(S) == CHOOSE x \in S : TRUE

OneOfEach(tr) ==
    /\ Cardinality(ElementsOf(tr, "image")) = 1
    /\ Cardinality(ElementsOf(tr, "svg")) = 1
    /\ Cardinality(ElementsOf(tr, "body")) = 1

HasText(tr, n) ==
    \E i \in 1..Len(tr) : tr[i].type = "text" /\ IsUnder(tr, i, n)

\* Significant child of b: an element child that is neither script nor
\* style nor a heading without text.
SignificantKids(tr, b) ==
    {c \in 1..Len(tr) :
        /\ tr[c].parent = b
        /\ tr[c].type = "element"
        /\ tr[c].tag \notin {"script", "style"}
        /\ ~(tr[c].tag \in HEADERTAGS /\ ~HasText(tr, c))}

HasAttribute(tr, n, name, value) ==
    \E j \in 1..Len(tr[n].atts) :
        tr[n].atts[j].name = name /\ tr[n].atts[j].value = value

FullSize(tr, n) ==
    HasAttribute(tr, n, "width", "100%") /\ HasAttribute(tr, n, "height", "100%")

\* n is under a, directly or with only script and style elements between.
ChildThroughScripts(tr, n, a) ==
    /\ IsUnder(tr, n, a)
    /\ \A x \in 1..Len(tr) :
          IsUnder(tr, n, x) /\ IsUnder(tr, x, a)
              => tr[x].tag \in {"script", "style"}

\* The tags from body down to n; it starts with "#none" when n is not
\* under a body.
RECURSIVE PathFromBody(_, _)
PathFromBody(tr, n) ==
    IF n = 0 THEN <<"#none">>
    ELSE IF tr[n].type = "element" /\ tr[n].tag = "body" THEN <<"body">>
    ELSE Append(PathFromBody(tr, tr[n].parent), tr[n].tag)

NotScriptOrStyle(tag) == tag \notin {"script", "style"}

ShapePaths ==
    { <<"body", "svg", "image">>, <<"body", "div", "svg", "image">> }

\* C1 as stated: one image, one svg, one body, body's only significant child
\* a div that contains the svg, and the svg 100% wide and high: Detect
\* returns true.
C1_Original ==
    (/\ pc = "returned"
     /\ OneOfEach(tree)
     /\ \E d \in ElementsOf(tree, "div") :
           /\ SignificantKids(tree, The(ElementsOf(tree, "body"))) = {d}
           /\ IsUnder(tree, The(ElementsOf(tree, "svg")), d)
     /\ FullSize(tree, The(ElementsOf(tree, "svg"))))
        => ret = "true"

C1_Shape(tr) ==
    /\ OneOfEach(tr)
    /\ \E d \in ElementsOf(tr, "div") :
          /\ SignificantKids(tr, The(ElementsOf(tr, "body"))) = {d}
          /\ ChildThroughScripts(tr, The(ElementsOf(tr, "svg")), d)
    /\ ChildThroughScripts(tr, The(ElementsOf(tr, "image")),
                           The(ElementsOf(tr, "svg")))
    /\ FullSize(tr, The(ElementsOf(tr, "svg")))

\* C1 (amended): when, besides, the svg is a child of that div and the image
\* a child of the svg (directly, or with only script and style elements
\* between), Detect returns true.
C1_DivShapeAccepted ==
    (pc = "returned" /\ C1_Shape(tree)) => ret = "true"

C1_Witness ==
    pc = "returned" /\ C1_Shape(tree) /\ ret = "true"

\* C2: a document whose number of image, svg or body elements is not 1
\* never gets past the count checks, and Detect returns false for it.
C2_WrongCountsRejected ==
    (pc \notin {"idle", "fixup"} /\ ~OneOfEach(tree))
        => /\ pc \in {"returned", "set", "done"}
           /\ ret = "false"

C2_Witness ==
    /\ pc = "returned"
    /\ ret = "false"
    /\ Cardinality(ElementsOf(tree, "image")) = 2
    /\ Cardinality(ElementsOf(tree, "svg")) = 1
    /\ Cardinality(ElementsOf(tree, "body")) = 1

(***************************************************************************)
(* Elements of the markup as written, for the properties that compare a    *)
(* document with the same document less one element.                       *)
(***************************************************************************)
\* The end tag that closes the start tag at i (0: none).
MatchClose(toks, i) ==
    LET ends == {j \in (i + 1)..Len(toks) :
                    toks[j].k = "close" /\ toks[j].tag = toks[i].tag}
    IN IF ends = {} THEN 0 ELSE CHOOSE j \in ends : \A e \in ends : j <= e

\* The markup without the lexemes i..j.
Without(toks, i, j) ==
    SubSeq(toks, 1, i - 1) \o SubSeq(toks, j + 1, Len(toks))

\* The markup without the start tag at i and the end tag at j.
Unwrapped(toks, i, j) ==
    SubSeq(toks, 1, i - 1) \o SubSeq(toks, i + 1, j - 1)
      \o SubSeq(toks, j + 1, Len(toks))

EnclosesImage(toks, i, j) ==
    \E m \in (i + 1)..(j - 1) : toks[m].k = "open" /\ toks[m].tag = "image"

IsBodyChild(tr, n) ==
    tr[n].parent # 0 /\ tr[tr[n].parent].type = "element"
        /\ tr[tr[n].parent].tag = "body"

\* What the call on the tree in the state yields: ret once it has returned,
\* "ub" when it runs into the read through a null pointer.
Outcome == IF Detect(tree) = "ub" THEN "ub" ELSE ret

TextlessHeadings(tr) ==
    {n \in 1..Len(tr) :
        /\ tr[n].type = "element"
        /\ tr[n].tag \in HEADERTAGS
        /\ IsBodyChild(tr, n)
        /\ ~HasText(tr, n)
        /\ tr[n].end # 0}

\* C3: a heading child of body whose text is empty or only white space does
\* not count: the document without it has the same result.  A heading with
\* text counts: with an svg or div beside it, Detect returns false.
C3_Headings ==
    pc = "returned" =>
        /\ \A n \in TextlessHeadings(tree) :
              Detect(Parse(Without(orig, tree[n].pos, tree[n].end))) = Outcome
        /\ (\E h, m \in 1..Len(tree) :
               /\ tree[h].type = "element" /\ tree[h].tag \in HEADERTAGS
               /\ IsBodyChild(tree, h) /\ HasText(tree, h)
               /\ tree[m].type = "element" /\ tree[m].tag \in {"svg", "div"}
               /\ IsBodyChild(tree, m))
             => ret = "false"

C3_Witness ==
    /\ pc = "returned"
    /\ ret = "true"
    /\ \E n \in TextlessHeadings(tree) :
          \E i \in 1..Len(tree) :
              tree[i].type = "whitespace" /\ tree[i].parent = n

\* The script and style elements of the markup, by the position of their
\* start tag.
ScriptElements(toks) ==
    {i \in 1..Len(toks) :
        /\ toks[i].k = "open"
        /\ toks[i].tag \in {"script", "style"}
        /\ MatchClose(toks, i) # 0}

NodeAt(tr, i) == The({n \in 1..Len(tr) : tr[n].pos = i})

SameWithout(i) ==
    LET j == MatchClose(orig, i) IN
    IF EnclosesImage(orig, i, j)
    THEN Detect(Parse(Unwrapped(orig, i, j))) = Outcome
    ELSE IsBodyChild(tree, NodeAt(tree, i))
            => Detect(Parse(Without(orig, i, j))) = Outcome

\* C4 as stated: a script or style element that is a child of body, or
\* that is wrapped around the image anywhere between it and body, changes
\* nothing: the document without it has the same result.
C4_Original ==
    pc = "returned" =>
        \A i \in ScriptElements(orig) :
            (\E n \in 1..Len(tree) : tree[n].pos = i) => SameWithout(i)

\* C4 (amended): that holds of a script or style child of body that does
\* not enclose the image, and of a script or style element inside the svg
\* that encloses the image; around the svg or its div it does not.
C4_ScriptStyleTransparent ==
    pc = "returned" =>
        \A i \in ScriptElements(orig) :
            (/\ \E n \in 1..Len(tree) : tree[n].pos = i
             /\ EnclosesImage(orig, i, MatchClose(orig, i))
                   => \E s \in ElementsOf(tree, "svg") :
                          IsUnder(tree, NodeAt(tree, i), s))
                => SameWithout(i)

C4_Witness ==
    /\ pc = "returned"
    /\ ret = "true"
    /\ \E n \in ElementsOf(tree, "style") :
          /\ IsUnder(tree, The(ElementsOf(tree, "image")), n)
          /\ IsUnder(tree, n, The(ElementsOf(tree, "svg")))

\* C5 as stated: Detect returns true only if the tags from body down to the
\* image are exactly body,svg,image or body,div,svg,image.
C5_Original ==
    (pc = "returned" /\ ret = "true")
        => PathFromBody(tree, The(ElementsOf(tree, "image"))) \in ShapePaths

\* C5 (amended): Detect returns true only if the tags from body down to the
\* image, script and style left out, are exactly body,svg,image or
\* body,div,svg,image.
C5_PathNeeded ==
    (pc = "returned" /\ ret = "true")
        => SelectSeq(PathFromBody(tree, The(ElementsOf(tree, "image"))),
                     NotScriptOrStyle) \in ShapePaths

C5_Witness ==
    /\ pc = "returned"
    /\ ret = "false"
    /\ path_pieces = <<"body", "div", "div", "svg", "image">>
    /\ FullSize(tree, svg_node)

\* The path as C6 states it: from the image up to body, leaving out every
\* ancestor whose parent is script or style.
RECURSIVE ChildSkippingPath(_, _)
ChildSkippingPath(tr, n) ==
    IF n = 0 THEN <<"#none">>
    ELSE IF tr[n].type = "element" /\ tr[n].tag = "body" THEN <<"body">>
    ELSE IF tr[n].tag # "image" /\ tr[n].parent # 0
              /\ tr[tr[n].parent].tag \in {"script", "style"}
    THEN ChildSkippingPath(tr, tr[n].parent)
    ELSE Append(ChildSkippingPath(tr, tr[n].parent), tr[n].tag)

\* C6 as stated: the path built leaves out the ancestors whose parent is
\* script or style, and no others.
C6_Original ==
    pc = "path" => path_pieces = ChildSkippingPath(tree, image_node)

\* C6 (amended): the path built leaves out the script and style ancestors
\* themselves, and no others; the other ancestors up to body are in it in
\* order.
C6_PathBuilt ==
    pc = "path" =>
        path_pieces = SelectSeq(PathFromBody(tree, image_node), NotScriptOrStyle)

C6_Witness ==
    /\ pc = "path"
    /\ path_pieces = <<"body", "svg", "image">>
    /\ tree[tree[image_node].parent].tag = "style"

\* C7: Detect returns true only if the svg has a width and a height
\* attribute and both are exactly 100%.
C7_DimsNeeded ==
    (pc = "returned" /\ ret = "true")
        => FullSize(tree, The(ElementsOf(tree, "svg")))

C7_Witness ==
    /\ pc = "returned"
    /\ ret = "false"
    /\ elcount = 1
    /\ path_pieces \in ShapePaths
    /\ HasAttribute(tree, svg_node, "width", "100%")
    /\ \A j \in 1..Len(tree[svg_node].atts) :
          tree[svg_node].atts[j].name # "height"

\* The attributes whose value the rewrite changed.
Changed ==
    {c \in UNION {{<<i, j>> : j \in 1..Len(orig[i].atts)} : i \in 1..Len(orig)} :
        text[c[1]].atts[c[2]] # orig[c[1]].atts[c[2]]}

ChangedTo(v) == {c \in Changed : text[c[1]].atts[c[2]].value = v}

\* C8: the rewrite changes nothing but the value of one attribute from 100%
\* to 100vh and the value of one attribute from 100% to 100vw; when Detect
\* returned false the markup is handed on as it came.
C8_RewriteFrame ==
    pc \in {"set", "done"} =>
        /\ Len(text) = Len(orig)
        /\ \A i \in 1..Len(orig) :
              /\ text[i].k = orig[i].k
              /\ text[i].tag = orig[i].tag
              /\ Len(text[i].atts) = Len(orig[i].atts)
        /\ \A c \in Changed :
              /\ orig[c[1]].atts[c[2]].value = "100%"
              /\ text[c[1]].atts[c[2]].name = orig[c[1]].atts[c[2]].name
              /\ text[c[1]].atts[c[2]].q = orig[c[1]].atts[c[2]].q
              /\ text[c[1]].atts[c[2]].value \in {"100vh", "100vw"}
        /\ Cardinality(ChangedTo("100vh")) <= 1
        /\ Cardinality(ChangedTo("100vw")) <= 1
        /\ ret = "false" => text = orig
        /\ pc = "done" => doc = text

C8_Witness ==
    /\ pc = "set"
    /\ ret = "true"
    /\ Cardinality(ChangedTo("100vh")) = 1
    /\ Cardinality(ChangedTo("100vw")) = 1

\* C9: when Detect returns true, the first match of the height pattern and
\* the first match of the width pattern (if the pattern matches at all) are
\* the height and the width attribute of the start tag of the svg element
\* that Detect examined.
C9_MatchIsTheSvg ==
    (pc = "returned" /\ ret = "true") =>
        \A dim \in {"height", "width"} :
            LET i == FirstMatch(orig, dim) IN
            i # 0 =>
                /\ i = tree[svg_node].pos
                /\ orig[i].atts[Captured(orig[i], dim)].name = dim

\* C10: Detect has no failure path: the first-child-name lookup is never
\* made on an empty list, and the walk up from the image never reads the
\* tag of a missing parent.
C10_NoFailurePath ==
    /\ pc # "crashed"
    /\ pc = "scan" => ScanVerdict(BodyScan(tree, body_node)) # "at_empty"
    /\ pc = "walk" => ~AncestorWalk(tree, image_node).fault


(***************************************************************************)
(* C11 and C12: the busy flag and the early returns of UpdatePage, under   *)
(* SpecUI.                                                                 *)
(***************************************************************************)

\* A step in which a document is handed to the view.
Handover == loading' = loading + 1

\* C11 as stated: at most one load is outstanding in the view, and
\* m_updatingPage is true exactly while one is.
C11_Original ==
    pc = "idle" => /\ loading <= 1
                   /\ m_updatingPage <=> loading = 1

\* C11, amended: UpdatePage hands a document to the view only when the
\* view is visible and m_updatingPage is false, and sets m_updatingPage;
\* m_updatingPage is true only while a load is outstanding; and as long as
\* ReloadPreview has not cleared the flag under an outstanding load, no
\* document is handed over while another waits, at most one load is
\* outstanding and m_updatingPage is true exactly while it is.
C11_OneLoadUnlessForced ==
    [][ /\ Handover => /\ visible /\ ~m_updatingPage /\ m_updatingPage'
                       /\ ~forced => loading = 0
        /\ pc' = "idle" =>
              /\ m_updatingPage' => loading' >= 1
              /\ ~forced' => /\ loading' <= 1
                             /\ m_updatingPage' <=> loading' = 1 ]_vars

\* A second document has been handed over after ReloadPreview cleared the
\* flag under the first, and both loads are outstanding.
C11_Witness ==
    /\ pc = "idle"
    /\ forced
    /\ loading = 2
    /\ m_updatingPage
    /\ upd_ret = "true"

\* A step that is one call of UpdatePage.
UpdatePageStep ==
    \E f \in Files, t \in PreviewDocs, loc \in Locations :
        UpdatePageCall(f, t, loc)

\* C12: UpdatePage returns false exactly when the view is visible and
\* m_updatingPage is true, and returns true when the view is not visible;
\* in both cases m_location, m_Filepath, m_updatingPage, the progress bar,
\* the overlay timer and the overlay keep their values and no document is
\* handed to the view.
C12_EarlyReturns ==
    [][ UpdatePageStep =>
          /\ upd_ret' = "false" <=> (visible /\ m_updatingPage)
          /\ ~visible => upd_ret' = "true"
          /\ (~visible \/ upd_ret' = "false") =>
                UNCHANGED <<m_location, m_Filepath, m_updatingPage, progress,
                            timer, overlay, loading, doc, pc>> ]_vars

\* A call has been refused while a load was outstanding, and the view was
\* then hidden with the flag still set, where the next call returns true.
C12_Witness ==
    /\ pc = "idle"
    /\ upd_ret = "false"
    /\ m_updatingPage
    /\ loading = 1
    /\ ~visible

====
